---- MODULE Spec2Model ----
(***************************************************************************)
(* Model of InjectLib: main.py (catalog matching, version gate, bundle     *)
(* scan, action sequencer) and src/ui/menu_manager.py (paginated menu,     *)
(* search selection loop).                                                 *)
(*                                                                         *)
(* Python values are modelled as follows.                                  *)
(*   - a str whose characters matter (keywords, names, typed input) is a   *)
(*     sequence of one-character strings, so that lower(), strip(),        *)
(*     isdigit(), int() and the `in` substring test are computed;          *)
(*   - a str that is only compared for equality (a version) is a string;   *)
(*   - an optional value is <<>> for None and <<v>> for a present v;       *)
(*   - a list is a sequence.                                               *)
(***************************************************************************)
EXTENDS Integers, Sequences, FiniteSets, TLC

VARIABLES
    prog,           \* which entry point the behaviour exercises
    cc_args,        \* check_compatible: the four arguments
    cc_ret,         \* check_compatible: <<>> before the call, <<result>> after
    keyword,        \* search_apps: the keyword argument
    install_apps,   \* search_apps: the installed-app records
    s_pos,          \* search_apps: number of catalog entries iterated so far
    s_app,          \* search_apps: <<>> or <<the entry of the last iteration>>
    matched_apps,   \* search_apps: the result list, as catalog positions
    s_returned,     \* search_apps: TRUE once the function has returned
    fs,             \* scan_apps: the install roots on disk
    scan_ret,       \* scan_apps: <<>> before the call, <<outcome>> after
    pc,             \* main: the statement about to run
    line,           \* <<>> or <<the line a prompt has just read>>
    n_matched,      \* main: len(matched_apps) while the numbered prompt is pending
    work_left,      \* main: items of app_Lst the for loop has not taken yet
    item,           \* main: what the current iteration has read so far
    helpers_left,   \* main: helpers still to be handled by the current item
    todo,           \* main: commands of the current block not invoked yet
    log,            \* main: the commands invoked for the current item
    rc,             \* main: exit status of the last command invoked
    interrupted,    \* main: a KeyboardInterrupt has been raised
    farewell,       \* main: the farewell message has been printed
    m_pc,           \* MenuManager: "prompt" inside a loop, "returned", "crashed"
    n_apps,         \* show_main_menu: len(get_installed_supported_apps())
    current_page,   \* MenuManager.current_page
    total_pages,    \* show_main_menu: total_pages of the last display
    last_displayed_apps, \* MenuManager.last_displayed_apps, as app numbers
    menu_ret,       \* show_main_menu: <<>> or <<the value returned>>
    n_found,        \* handle_app_search: len(matched_apps)
    app_Lst,        \* handle_app_search: the chosen apps, as indices
    selected,       \* handle_app_search: the set of chosen indices
    heap,           \* main: the dict objects, by reference
    app_list,       \* main: config["AppList"], a list of references
    loaded,         \* the values of the catalog entries right after loading
    main_app_Lst,   \* main: app_Lst, a list of references
    visited,        \* main: the positions of app_Lst the for loop has taken
    selected_apps,  \* AppManager: the selected apps, each a distinct token
    next_app,       \* the token of the next selection
    processed,      \* the apps process_selected_apps has been handed, in order
    hp_ret,         \* handle_process_apps: <<>> or <<the value returned>>
    files,          \* the injection target, its backup and a component executable
    runs            \* the number of sequencer runs started on the app

compatVars == <<cc_args, cc_ret>>
searchVars == <<keyword, install_apps, s_pos, s_app, matched_apps, s_returned>>
scanVars == <<fs, scan_ret>>
mainVars == <<pc, line, n_matched, work_left, item, helpers_left, todo, log, rc, interrupted, farewell>>
menuVars == <<m_pc, n_apps, current_page, total_pages, last_displayed_apps, menu_ret, n_found, app_Lst, selected>>
workVars == <<heap, app_list, loaded, main_app_Lst, visited>>
processVars == <<selected_apps, next_app, processed, hp_ret>>
fileVars == <<files, runs>>
vars == <<prog, compatVars, searchVars, scanVars, mainVars, menuVars, workVars, processVars, fileVars>>

(***************************************************************************)
(* Optional values                                                         *)
(***************************************************************************)
None == <<>>
Some(v) == <<v>>
IsNone(o) == o = <<>>

(***************************************************************************)
(* check_compatible (main.py 71-90)                                        *)
(***************************************************************************)
MaxVers == 2
Versions == {"1.0", "2.0"}
VersionLists == UNION {[1..n -> Versions] : n \in 0..MaxVers}
OptVersionLists == {None} \cup {Some(l) : l \in VersionLists}

\* Python truthiness of an optional list: None and [] are falsy.
Truthy(optList) == ~IsNone(optList) /\ Len(optList[1]) > 0

\* The same function with the first test written as `not a and not b`.
check_compatible_falsy(compatible_version_code, compatible_version_subcode, app_version_code, app_subversion_code) ==
    IF ~Truthy(compatible_version_code) /\ ~Truthy(compatible_version_subcode)
    THEN TRUE
    ELSE IF Truthy(compatible_version_code)
            /\ \E i \in 1..Len(compatible_version_code[1]) :
                   app_version_code = compatible_version_code[1][i]
    THEN TRUE
    ELSE IF Truthy(compatible_version_subcode)
            /\ \E i \in 1..Len(compatible_version_subcode[1]) :
                   app_subversion_code = compatible_version_subcode[1][i]
    THEN TRUE
    ELSE FALSE

check_compatible(compatible_version_code, compatible_version_subcode, app_version_code, app_subversion_code) ==
    IF IsNone(compatible_version_code) /\ IsNone(compatible_version_subcode)
    THEN TRUE
    ELSE IF Truthy(compatible_version_code)
            /\ \E i \in 1..Len(compatible_version_code[1]) :
                   app_version_code = compatible_version_code[1][i]
    THEN TRUE
    ELSE IF Truthy(compatible_version_subcode)
            /\ \E i \in 1..Len(compatible_version_subcode[1]) :
                   app_subversion_code = compatible_version_subcode[1][i]
    THEN TRUE
    ELSE FALSE

CompatIdle == cc_args = <<>> /\ cc_ret = <<>>
SearchIdle ==
    /\ keyword = <<>> /\ install_apps = <<>> /\ s_pos = 0 /\ s_app = <<>>
    /\ matched_apps = <<>> /\ s_returned = FALSE
ScanIdle == fs = <<>> /\ scan_ret = <<>>
MenuIdle ==
    /\ m_pc = "idle" /\ n_apps = 0 /\ current_page = 0 /\ total_pages = 0
    /\ last_displayed_apps = <<>> /\ menu_ret = <<>> /\ n_found = 0
    /\ app_Lst = <<>> /\ selected = {}
WorkIdle ==
    /\ heap = <<>> /\ app_list = <<>> /\ loaded = <<>> /\ main_app_Lst = <<>>
    /\ visited = <<>>
ProcessIdle ==
    /\ selected_apps = <<>> /\ next_app = 0 /\ processed = <<>> /\ hp_ret = <<>>
FilesIdle == files = <<>> /\ runs = 0

\* What an iteration of main's for loop has read: nothing yet.
NoItem ==
    [componentApp |-> None, local_app |-> None, compatible |-> None, answer |-> None]
MainIdle ==
    /\ pc = "idle" /\ line = <<>> /\ n_matched = 0 /\ work_left = 0
    /\ item = NoItem /\ helpers_left = 0 /\ todo = <<>> /\ log = <<>>
    /\ rc = 0 /\ interrupted = FALSE /\ farewell = FALSE

InitCompat ==
    /\ prog = "check_compatible"
    /\ cc_args \in [versions : OptVersionLists, subversions : OptVersionLists,
                    appVersion : Versions, appSubVersion : Versions]
    /\ cc_ret = <<>>
    /\ SearchIdle
    /\ ScanIdle
    /\ MainIdle
    /\ MenuIdle
    /\ WorkIdle /\ ProcessIdle /\ FilesIdle

CallCheckCompatible ==
    /\ prog = "check_compatible"
    /\ cc_ret = <<>>
    /\ cc_ret' = <<check_compatible(cc_args.versions, cc_args.subversions,
                                    cc_args.appVersion, cc_args.appSubVersion)>>
    /\ UNCHANGED <<prog, cc_args, searchVars, scanVars, mainVars, menuVars, workVars, processVars, fileVars>>

NextCompat == CallCheckCompatible

SpecCompat == InitCompat /\ [][NextCompat]_vars

\* The elements of an allow-list; an absent list has none.
Allowed(optList) ==
    IF IsNone(optList) THEN {} ELSE {optList[1][i] : i \in 1..Len(optList[1])}

\* C1: check_compatible returns true exactly when no version constraint is
\* declared (both allow-lists absent), or the app version is an element of the
\* version allow-list, or the app sub-version is an element of the sub-version
\* allow-list; for every combination of absent, empty and non-empty lists.
C1_CompatibleIffUnconstrainedOrListed ==
    cc_ret # <<>> =>
        (cc_ret[1] <=>
            \/ IsNone(cc_args.versions) /\ IsNone(cc_args.subversions)
            \/ cc_args.appVersion \in Allowed(cc_args.versions)
            \/ cc_args.appSubVersion \in Allowed(cc_args.subversions))

\* One list absent, the other empty: a declared constraint nothing satisfies.
C1_Witness ==
    /\ cc_ret = <<FALSE>>
    /\ IsNone(cc_args.versions)
    /\ cc_args.subversions = Some(<<>>)

(***************************************************************************)
(* Strings: lower(), the `in` substring test                               *)
(***************************************************************************)
\* str.lower() on one character of the model's alphabet.
LowerChar(c) ==
    CASE c = "A" -> "a"
      [] c = "B" -> "b"
      [] c = "Y" -> "y"
      [] c = "N" -> "n"
      [] OTHER -> c

lower(str) == [i \in 1..Len(str) |-> LowerChar(str[i])]

\* Python's `needle in hay` for two strings.
Contains(hay, needle) ==
    \E i \in 0..(Len(hay) - Len(needle)) :
        \A j \in 1..Len(needle) : hay[i + j] = needle[j]

(***************************************************************************)
(* search_apps (main.py 12-33)                                             *)
(***************************************************************************)
MaxCatalog == 2
MaxInstalled == 2
MaxNames == 2

NamePool == {<<"a">>, <<"A", "b">>, <<"b">>}
DisplayPool == {<<"B">>, <<"a", "B">>}
Keywords == {<<"a">>, <<"A", "B">>, <<"b", "a">>}

\* A catalog entry's packageName: a str, or a list of str.
PackageNames ==
    [kind : {"str"}, names : [1..1 -> NamePool]]
        \cup UNION {[kind : {"list"}, names : [1..n -> NamePool]] : n \in 1..MaxNames}
CatalogEntries == [packageName : PackageNames]

InstalledApps == [CFBundleIdentifier : NamePool, CFBundleName : DisplayPool]
InstalledLists == UNION {[1..n -> InstalledApps] : n \in 0..MaxInstalled}

\* Python's == between a bundle identifier (a str) and packageName: a str never
\* equals a list.
PyEq(bundleId, package_name) ==
    package_name.kind = "str" /\ bundleId = package_name.names[1]

\* isinstance(package_name, list) and any(keyword.lower() in name.lower() ...),
\* or isinstance(package_name, str) and keyword.lower() in package_name.lower()
PackageNameMatches(package_name, kw) ==
    IF package_name.kind = "list"
    THEN \E i \in 1..Len(package_name.names) :
             Contains(lower(package_name.names[i]), lower(kw))
    ELSE Contains(lower(package_name.names[1]), lower(kw))

\* The inner loop without its break: one append per matching installed app.
RECURSIVE InstalledLoopNoBreak(_, _, _, _, _)
InstalledLoopNoBreak(package_name, installed, kw, i, pos) ==
    IF i > Len(installed) THEN <<>>
    ELSE IF /\ PyEq(installed[i].CFBundleIdentifier, package_name)
            /\ Contains(lower(installed[i].CFBundleName), lower(kw))
         THEN <<pos>> \o InstalledLoopNoBreak(package_name, installed, kw, i + 1, pos)
         ELSE InstalledLoopNoBreak(package_name, installed, kw, i + 1, pos)

\* for installed_app in install_apps: ... append; break  (lines 27-31), from
\* index i on: what the loop appends to matched_apps.
RECURSIVE InstalledLoop(_, _, _, _, _)
InstalledLoop(package_name, installed, kw, i, pos) ==
    IF i > Len(installed) THEN <<>>
    ELSE IF /\ PyEq(installed[i].CFBundleIdentifier, package_name)
            /\ Contains(lower(installed[i].CFBundleName), lower(kw))
         THEN <<pos>>
         ELSE InstalledLoop(package_name, installed, kw, i + 1, pos)

\* One iteration of `for app in app_list` (lines 14-31): what it appends.
SearchBody(app, installed, kw, pos) ==
    IF PackageNameMatches(app.packageName, kw)
    THEN <<pos>>
    ELSE InstalledLoop(app.packageName, installed, kw, 1, pos)

InitSearch ==
    /\ prog = "search_apps"
    /\ keyword \in Keywords
    /\ install_apps \in InstalledLists
    /\ s_pos = 0
    /\ s_app = <<>>
    /\ matched_apps = <<>>
    /\ s_returned = FALSE
    /\ CompatIdle
    /\ ScanIdle
    /\ MainIdle
    /\ MenuIdle
    /\ WorkIdle /\ ProcessIdle /\ FilesIdle

\* The next catalog entry is iterated.
SearchIter ==
    /\ prog = "search_apps"
    /\ ~s_returned
    /\ s_pos < MaxCatalog
    /\ \E app \in CatalogEntries :
        /\ s_app' = <<app>>
        /\ matched_apps' = matched_apps \o SearchBody(app, install_apps, keyword, s_pos + 1)
    /\ s_pos' = s_pos + 1
    /\ UNCHANGED <<prog, keyword, install_apps, s_returned, compatVars, scanVars, mainVars, menuVars, workVars, processVars, fileVars>>

\* The catalog is exhausted: return matched_apps.
SearchReturn ==
    /\ prog = "search_apps"
    /\ ~s_returned
    /\ s_returned' = TRUE
    /\ UNCHANGED <<prog, keyword, install_apps, s_pos, s_app, matched_apps, compatVars, scanVars, mainVars, menuVars, workVars, processVars, fileVars>>

NextSearch == SearchIter \/ SearchReturn

SpecSearch == InitSearch /\ [][NextSearch]_vars

\* The package names of an entry, whether packageName is a str or a list.
NamesOf(app) == {app.packageName.names[i] : i \in 1..Len(app.packageName.names)}

\* The matcher's contract for one entry.
ShouldMatch(app) ==
    \/ \E name \in NamesOf(app) : Contains(lower(name), lower(keyword))
    \/ \E i \in 1..Len(install_apps) :
        /\ install_apps[i].CFBundleIdentifier \in NamesOf(app)
        /\ Contains(lower(install_apps[i].CFBundleName), lower(keyword))

InResult(pos) == \E k \in 1..Len(matched_apps) : matched_apps[k] = pos

\* C2: search_apps returns all and only the entries for which the keyword is a
\* case-insensitive substring of one of the entry's package names, or of the
\* display name of an installed app whose bundle identifier is one of the
\* entry's package names; for str and for list packageName alike.
C2_MatchedIffNameOrDisplayName ==
    s_app # <<>> => (InResult(s_pos) <=> ShouldMatch(s_app[1]))

\* C2, restricted to what the code does: a list entry is matched through its
\* package names only.
C2_MatchedAsCoded ==
    s_app # <<>> =>
        (InResult(s_pos) <=>
            \/ \E name \in NamesOf(s_app[1]) : Contains(lower(name), lower(keyword))
            \/ /\ s_app[1].packageName.kind = "str"
               /\ \E i \in 1..Len(install_apps) :
                    /\ install_apps[i].CFBundleIdentifier = s_app[1].packageName.names[1]
                    /\ Contains(lower(install_apps[i].CFBundleName), lower(keyword)))

\* A str entry matched through the display name alone.
C2_Witness ==
    /\ s_app # <<>>
    /\ s_app[1].packageName.kind = "str"
    /\ ~PackageNameMatches(s_app[1].packageName, keyword)
    /\ InResult(s_pos)

\* C3: the result is a subsequence of the catalog: positions strictly
\* increase, so the catalog order is kept and no entry appears twice.
C3_ResultIsSubsequence ==
    /\ \A k \in 1..Len(matched_apps) : matched_apps[k] \in 1..s_pos
    /\ \A k \in 1..(Len(matched_apps) - 1) : matched_apps[k] < matched_apps[k + 1]

\* Two entries matched, the last one through two installed apps at once.
C3_Witness ==
    /\ s_returned
    /\ Len(matched_apps) = 2
    /\ ~PackageNameMatches(s_app[1].packageName, keyword)
    /\ Cardinality({i \in 1..Len(install_apps) :
            /\ PyEq(install_apps[i].CFBundleIdentifier, s_app[1].packageName)
            /\ Contains(lower(install_apps[i].CFBundleName), lower(keyword))}) = 2

(***************************************************************************)
(* parse_app_info, scan_apps (main.py 36-68)                               *)
(***************************************************************************)
MaxSubdirs == 2

\* The keys of an Info.plist that parse_app_info reads; a key may be missing.
Manifests ==
    {[CFBundleIdentifier |-> Some("com.x"),
      CFBundleExecutable |-> Some("X"),
      CFBundleVersion |-> Some("100"),
      CFBundleShortVersionString |-> Some("1.0"),
      CFBundleName |-> Some("X App")],
     [CFBundleIdentifier |-> None,
      CFBundleExecutable |-> None,
      CFBundleVersion |-> None,
      CFBundleShortVersionString |-> None,
      CFBundleName |-> None]}

\* <base_dir>/<app>/Contents/Info.plist: absent, unreadable, not a property
\* list, or a property list.
NoManifest == [kind |-> "absent"]
BadManifests == {[kind |-> "unreadable"], [kind |-> "malformed"]}
GoodManifests == {[kind |-> "plist", plist |-> m] : m \in Manifests}
Subdirs == {NoManifest} \cup BadManifests \cup GoodManifests

\* A directory entry of /Applications; isSetapp marks the entry named Setapp.
AppEntries == {[isSetapp |-> b, info |-> d] : b \in BOOLEAN, d \in Subdirs}
Listings(S) == UNION {[1..n -> S] : n \in 0..MaxSubdirs}

\* /Applications/Setapp exists exactly when /Applications lists an entry
\* Setapp, and a directory lists a name once.
FileSystems ==
    {[Applications |-> None, Setapp |-> None]}
      \cup {[Applications |-> Some(l), Setapp |-> None] :
                l \in Listings({e \in AppEntries : ~e.isSetapp})}
      \cup {[Applications |-> Some(l), Setapp |-> Some(k)] :
                l \in {x \in Listings(AppEntries) :
                          Cardinality({i \in 1..Len(x) : x[i].isSetapp}) = 1},
                k \in Listings({e \in AppEntries : ~e.isSetapp})}

\* dict.get(key, default)
Get(opt, default) == IF IsNone(opt) THEN default ELSE opt[1]

\* parse_app_info: raises when the file cannot be opened or plistlib.load
\* fails, otherwise returns the record (CFBundleName is filled from
\* CFBundleExecutable).
parse_app_info(app_base_locate, info) ==
    IF info.kind # "plist"
    THEN [raised |-> TRUE]
    ELSE [raised |-> FALSE,
          value |-> [appBaseLocate |-> app_base_locate,
                     CFBundleIdentifier |-> info.plist.CFBundleIdentifier,
                     CFBundleVersion |-> Get(info.plist.CFBundleVersion, ""),
                     CFBundleShortVersionString |-> Get(info.plist.CFBundleShortVersionString, ""),
                     CFBundleName |-> Get(info.plist.CFBundleExecutable, ""),
                     CFBundleExecutable |-> Get(info.plist.CFBundleExecutable, "")]]

\* The loop body without the try/except: a parse failure propagates.
ScanEntryNoExcept(base_dir, app, entry) ==
    IF entry.info.kind = "absent"
    THEN [raised |-> FALSE, out |-> <<>>]
    ELSE LET r == parse_app_info(<<base_dir, app>>, entry.info)
         IN  IF r.raised THEN [raised |-> TRUE, out |-> <<>>]
             ELSE [raised |-> FALSE, out |-> <<r.value>>]

\* The body of `for app in lst` (lines 59-66) for one directory entry.
ScanEntry(base_dir, app, entry) ==
    IF entry.info.kind = "absent"
    THEN [raised |-> FALSE, out |-> <<>>]
    ELSE LET r == parse_app_info(<<base_dir, app>>, entry.info)
         IN  IF r.raised THEN [raised |-> FALSE, out |-> <<>>]
             ELSE [raised |-> FALSE, out |-> <<r.value>>]

\* `for app in lst` from entry i on; an exception leaving the body ends it.
RECURSIVE ScanDir(_, _, _)
ScanDir(base_dir, lst, i) ==
    IF i > Len(lst) THEN [raised |-> FALSE, out |-> <<>>]
    ELSE LET e == ScanEntry(base_dir, i, lst[i])
         IN  IF e.raised THEN e
             ELSE LET rest == ScanDir(base_dir, lst, i + 1)
                  IN  [raised |-> rest.raised, out |-> e.out \o rest.out]

\* if not os.path.exists(base_dir): continue
ScanRoot(base_dir, optListing) ==
    IF IsNone(optListing) THEN [raised |-> FALSE, out |-> <<>>]
    ELSE ScanDir(base_dir, optListing[1], 1)

\* scan_apps: base_dirs = ["/Applications", "/Applications/Setapp"]
scan_apps(disk) ==
    LET a == ScanRoot("/Applications", disk.Applications)
    IN  IF a.raised THEN a
        ELSE LET b == ScanRoot("/Applications/Setapp", disk.Setapp)
             IN  [raised |-> b.raised, out |-> a.out \o b.out]

InitScan ==
    /\ prog = "scan_apps"
    /\ fs \in FileSystems
    /\ scan_ret = <<>>
    /\ CompatIdle
    /\ SearchIdle
    /\ MainIdle
    /\ MenuIdle
    /\ WorkIdle /\ ProcessIdle /\ FilesIdle

CallScanApps ==
    /\ prog = "scan_apps"
    /\ scan_ret = <<>>
    /\ scan_ret' = <<scan_apps(fs)>>
    /\ UNCHANGED <<prog, fs, compatVars, searchVars, mainVars, menuVars, workVars, processVars, fileVars>>

NextScan == CallScanApps

SpecScan == InitScan /\ [][NextScan]_vars

\* The indices of a listing whose entry holds a readable property list.
WellFormedIn(optListing) ==
    IF IsNone(optListing) THEN {}
    ELSE {i \in 1..Len(optListing[1]) : optListing[1][i].info.kind = "plist"}

\* The number of elements of a set of indices below index i.
RankIn(S, i) == Cardinality({j \in S : j <= i})

\* C7: scan_apps returns, without aborting, exactly one record per
\* subdirectory of an existing root that holds a well-formed manifest, in
\* listing order, /Applications first; everything else contributes nothing.
C7_ScanOneRecordPerManifest ==
    scan_ret # <<>> =>
        LET A == WellFormedIn(fs.Applications)
            B == WellFormedIn(fs.Setapp)
            out == scan_ret[1].out
        IN  /\ ~scan_ret[1].raised
            /\ Len(out) = Cardinality(A) + Cardinality(B)
            /\ \A i \in A : out[RankIn(A, i)].appBaseLocate = <<"/Applications", i>>
            /\ \A i \in B :
                 out[Cardinality(A) + RankIn(B, i)].appBaseLocate = <<"/Applications/Setapp", i>>

\* A scan that met an unparsable manifest before a well-formed one.
C7_Witness ==
    /\ scan_ret # <<>>
    /\ ~IsNone(fs.Applications)
    /\ Len(fs.Applications[1]) = 2
    /\ fs.Applications[1][1].info.kind = "malformed"
    /\ fs.Applications[1][2].info.kind = "plist"
    /\ Len(scan_ret[1].out) = 1

(***************************************************************************)
(* Typed lines: strip(), isdigit(), int(), read_input                      *)
(***************************************************************************)
MaxTyped == 2

Digits == {"0", "1", "2", "3", "4", "5", "6", "7", "8", "9"}

DigitValue(c) ==
    CASE c = "0" -> 0 [] c = "1" -> 1 [] c = "2" -> 2 [] c = "3" -> 3
      [] c = "4" -> 4 [] c = "5" -> 5 [] c = "6" -> 6 [] c = "7" -> 7
      [] c = "8" -> 8 [] c = "9" -> 9

\* str.strip(): leading and trailing blanks removed.
RECURSIVE lstrip(_)
lstrip(str) ==
    IF Len(str) > 0 /\ Head(str) = " " THEN lstrip(Tail(str)) ELSE str

RECURSIVE rstrip(_)
rstrip(str) ==
    IF Len(str) > 0 /\ str[Len(str)] = " "
    THEN rstrip(SubSeq(str, 1, Len(str) - 1))
    ELSE str

strip(str) == rstrip(lstrip(str))

\* str.isdigit(): non-empty and all digits.
isdigit(str) == Len(str) > 0 /\ \A i \in 1..Len(str) : str[i] \in Digits

\* int(str) for a string of digits.
RECURSIVE int(_)
int(str) ==
    IF Len(str) = 0 THEN 0
    ELSE 10 * int(SubSeq(str, 1, Len(str) - 1)) + DigitValue(str[Len(str)])

\* read_input (main.py 10-11): input(prompt).strip().lower()
read_input(typed) == lower(strip(typed))

Strings(chars, n) == UNION {[1..k -> chars] : k \in 0..n}

(***************************************************************************)
(* main (main.py 168-492)                                                  *)
(***************************************************************************)
MaxWork == 2
MaxMatched == 2
MaxComponents == 1
MaxHelpers == 1
MaxTcc == 1

\* Lines typed at main's prompts.
KeywordLines == {<<>>, <<" ">>, <<"a">>}
ChoiceLines == Strings({"0", "1", "2", "x", " "}, MaxTyped)
AnswerLines == {<<"y">>, <<" ", "Y">>, <<"n">>, <<>>, <<"y", "y">>}
BackupAnswerLines == {<<"n">>, <<"N", " ">>, <<"y">>, <<>>}

\* app.get("componentApp"): None or a list of component paths.
ComponentApps == {None} \cup {Some(n) : n \in 1..MaxComponents}
NComponents(componentApp) == IF IsNone(componentApp) THEN 0 ELSE componentApp[1]

\* appBaseLocate of the entry: absent; not a directory; a directory whose
\* Contents/Info.plist cannot be parsed; a directory holding a bundle.
Locates == {"none", "nodir", "dir_bad", "dir_ok"}

\* app.get("tccutil"): None; a falsy value; a service name; a list of service
\* names; another truthy value (true).
TccValues ==
    {[kind |-> "None", n |-> 0], [kind |-> "falsy", n |-> 0],
     [kind |-> "str", n |-> 1], [kind |-> "other", n |-> 0]}
        \cup {[kind |-> "list", n |-> k] : k \in 1..MaxTcc}

\* The keys of the entry the signing step reads, each set or not:
\* noSignTarget, disableLibraryValidate, extraShell, deepSignApp.
SignFlags ==
    {f \in [noSignTarget : BOOLEAN, disableLibraryValidate : BOOLEAN, extraShell : BOOLEAN, deepSignApp : BOOLEAN] :
        f.extraShell = f.disableLibraryValidate /\ f.deepSignApp \in {f.noSignTarget, f.extraShell}}

\* One external invocation: the tool, what it reads, what it acts on, and
\* the function that invokes it.
Cmd(tool, source, target, site) ==
    [tool |-> tool, source |-> source, target |-> target, site |-> site]

\* line 321
OnlyShCommands == <<Cmd("sh", "", <<"extraShell", 0>>, "main")>>

\* lines 326-329
AdobeCommands == <<Cmd("chmod", "", <<"adobe_components", 0>>, "main")>>

\* lines 360-361
ResetCommands ==
    <<Cmd("chmod", "", <<"app_base_locate", 0>>, "main"),
      Cmd("xattr", "", <<"app_base_locate", 0>>, "main")>>

\* lines 363-365
KillCommands == <<Cmd("pkill", "", <<"main_executable", 0>>, "main")>>

\* handle_keygen, lines 92-97
handle_keygen ==
    <<Cmd("chmod", "", <<"KeygenStarter", 0>>, "handle_keygen"),
      Cmd("KeygenStarter", "", <<"bundleIdentifier", 0>>, "handle_keygen")>>

\* lines 381, 383: sudo cp '{dest}' '{backup}'
BackupCommands == <<Cmd("cp", "dest", <<"backup", 0>>, "main")>>

\* lines 387-388
ChmodInjectorCommands == <<Cmd("chmod", "", <<"insert_dylib", 0>>, "main")>>

\* The injector called with the target as its input and the backup as its
\* output.
InjectReversed == <<Cmd("insert_dylib", "dest", <<"backup", 0>>, "main")>>

\* lines 390, 423: insert_dylib <tool dylib> '{backup}' '{dest}'
InjectPlain == <<Cmd("insert_dylib", "backup", <<"dest", 0>>, "main")>>

\* lines 401-405: cp, or ln -f -s under InjectLibDev
CopyDylibCommands(dev) ==
    <<Cmd(IF dev THEN "ln" ELSE "cp", "dylib", <<"bridge_dylib", 0>>, "main")>>

\* The injection list followed by a copy of the target to the backup.
InjectCopiedThenBackup(componentApp) ==
    [i \in 1..(1 + NComponents(componentApp)) |->
        Cmd("insert_dylib", "backup",
            IF i = 1 THEN <<"dest", 0>> ELSE <<"component", i - 1>>, "main")]
      \o <<Cmd("cp", "dest", <<"backup", 0>>, "main")>>

\* lines 407-421: desireApp = [dest] + component executables, one insert_dylib
\* '{backup}' '{it}' each
InjectCopied(componentApp) ==
    [i \in 1..(1 + NComponents(componentApp)) |->
        Cmd("insert_dylib", "backup",
            IF i = 1 THEN <<"dest", 0>> ELSE <<"component", i - 1>>, "main")]

\* lines 425-454
SignCommands(no_sign_target, disable_library_validate, extra_shell, deep_sign_app) ==
    (IF no_sign_target THEN <<>> ELSE <<Cmd("codesign", "", <<"dest", 0>>, "main")>>)
      \o (IF disable_library_validate
          THEN <<Cmd("defaults", "", <<"libraryvalidation", 0>>, "main")>> ELSE <<>>)
      \o (IF extra_shell THEN <<Cmd("sh", "", <<"extraShell", 0>>, "main")>> ELSE <<>>)
      \o (IF deep_sign_app
          THEN <<Cmd("codesign", "", <<"app_base_locate", 0>>, "main")>> ELSE <<>>)
      \o <<Cmd("xattr", "", <<"dest", 0>>, "main")>>

\* handle_helper, lines 106-114
HelperBeginCommands ==
    <<Cmd("chmod", "", <<"GenShineImpactStarter", 0>>, "handle_helper"),
      Cmd("GenShineImpactStarter", "", <<"target_helper", 0>>, "handle_helper"),
      Cmd("insert_dylib", "target_helper", <<"target_helper", 0>>, "handle_helper")>>

\* handle_helper, lines 119-149
HelperRestCommands(daemon_exists, componentApp) ==
    (IF daemon_exists
     THEN <<Cmd("launchctl", "", <<"launch_daemon", 0>>, "handle_helper"),
            Cmd("killall", "", <<"helper_name", 0>>, "handle_helper"),
            Cmd("rm", "", <<"launch_daemon", 0>>, "handle_helper"),
            Cmd("rm", "", <<"privileged_helper", 0>>, "handle_helper")>>
     ELSE <<>>)
      \o <<Cmd("xattr", "", <<"app_base_locate", 0>>, "handle_helper")>>
      \o [i \in 1..(1 + NComponents(componentApp)) |->
            Cmd("PlistBuddy", "", <<"Info.plist", i - 1>>, "handle_helper")]
      \o <<Cmd("codesign", "", <<"target_helper", 0>>, "handle_helper"),
           Cmd("codesign", "", <<"app_base_locate", 0>>, "handle_helper")>>

\* lines 474-488: one tccutil reset per identifier and service
TccCommands(tccutil, componentApp) ==
    IF tccutil.kind \in {"str", "list"}
    THEN [i \in 1..((1 + NComponents(componentApp)) * tccutil.n) |->
            Cmd("tccutil", "", <<"bundle_id", (i - 1) \div tccutil.n>>, "main")]
    ELSE <<>>

notMain == <<prog, compatVars, searchVars, scanVars, menuVars, workVars, processVars, fileVars>>

InitMain ==
    /\ prog = "main"
    /\ pc = "start"
    /\ line = <<>>
    /\ n_matched = 0
    /\ work_left = 0
    /\ item = NoItem
    /\ helpers_left = 0
    /\ todo = <<>>
    /\ log = <<>>
    /\ rc = 0
    /\ interrupted = FALSE
    /\ farewell = FALSE
    /\ CompatIdle
    /\ SearchIdle
    /\ ScanIdle
    /\ MenuIdle
    /\ WorkIdle /\ ProcessIdle /\ FilesIdle

\* main has returned: its locals are gone.
Returned == work_left' = 0 /\ item' = NoItem /\ helpers_left' = 0

Running == prog = "main" /\ pc \notin {"idle", "done", "crashed"}
AtStatement(p) == prog = "main" /\ pc = p /\ todo = <<>>

\* subprocess.run(...) has returned `status`: where main goes on. The call
\* passes no check=True and the result is dropped.
OnExitChecked(status, next) == IF status # 0 THEN "crashed" ELSE next

OnExit(status, next) == next

\* An except KeyboardInterrupt placed inside the for loop: the next item is
\* tried.
KeyboardInterruptInLoop(at) ==
    IF at \in {"start", "keyword", "choice"} THEN "done" ELSE "loop"

\* except KeyboardInterrupt (lines 491-492) encloses the whole of main.
KeyboardInterruptHandler(at) == "done"

\* if action != "y" with the default turned round.
ApprovesUnlessNo(action) == action # <<"n">>

\* line 317: the sequencer runs when action == "y".
Approves(action) == action = <<"y">>

\* lines 169-196: the configuration is loaded and the bundles scanned; the
\* keyword prompt follows.
MainStart ==
    /\ AtStatement("start")
    /\ pc' = "keyword"
    /\ line' = <<>>
    /\ UNCHANGED <<n_matched, work_left, item, helpers_left, todo, log, rc, interrupted, farewell, notMain>>

\* lines 197-203 and 227-239: keyword = input().strip(); without a keyword the
\* whole catalog becomes the work list, with one search_apps finds the
\* matches and returns when there is none.
MainKeyword ==
    /\ AtStatement("keyword")
    /\ \E typed \in KeywordLines :
        /\ line' = <<typed>>
        /\ IF strip(typed) = <<>>
           THEN /\ work_left' \in 0..MaxWork
                /\ n_matched' = 0
                /\ pc' = "loop"
           ELSE /\ n_matched' \in 0..MaxMatched
                /\ work_left' = 0
                /\ pc' = IF n_matched' = 0 THEN "done" ELSE "choice"
    /\ UNCHANGED <<item, helpers_left, todo, log, rc, interrupted, farewell, notMain>>

\* line 214: what the numbered prompt rejects.
ChoiceRejected(choice, count) ==
    ~isdigit(choice) \/ int(choice) = 0 \/ int(choice) > count

\* lines 212-226: choice = input().strip(); a rejected choice prints the exit
\* message and returns, an accepted one expands the chosen entry into one
\* work item per package name. matched_apps is not read after this statement.
MainChoice ==
    /\ AtStatement("choice")
    /\ \E typed \in ChoiceLines :
        /\ line' = <<typed>>
        /\ IF ChoiceRejected(strip(typed), n_matched)
           THEN pc' = "done" /\ work_left' = 0
           ELSE pc' = "loop" /\ work_left' \in 1..MaxWork
    /\ n_matched' = 0
    /\ UNCHANGED <<item, helpers_left, todo, log, rc, interrupted, farewell, notMain>>

\* line 241, lines 242-262: the for loop takes the next work item and reads
\* its keys.
LoopNext ==
    /\ AtStatement("loop")
    /\ work_left > 0
    /\ work_left' = work_left - 1
    /\ \E c \in ComponentApps : item' = [NoItem EXCEPT !.componentApp = c]
    /\ log' = <<>>
    /\ line' = <<>>
    /\ pc' = "resolve"
    /\ UNCHANGED <<n_matched, helpers_left, todo, rc, interrupted, farewell, notMain>>

\* line 241: the work list is exhausted; main returns.
LoopExit ==
    /\ AtStatement("loop")
    /\ work_left = 0
    /\ pc' = "done"
    /\ line' = <<>>
    /\ Returned
    /\ UNCHANGED <<n_matched, todo, log, rc, interrupted, farewell, notMain>>

\* lines 264-287: the installed bundle of the item, from the scan or, when
\* the scan has none, from appBaseLocate; parse_app_info raises on a directory
\* without a readable manifest.
Resolve ==
    /\ AtStatement("resolve")
    /\ \E found \in BOOLEAN, locate \in Locates :
        IF found
        THEN item' = [item EXCEPT !.local_app = Some("scan")] /\ pc' = "gate"
        ELSE IF locate \in {"none", "nodir"}
        THEN item' = [item EXCEPT !.local_app = Some("missing")] /\ pc' = "loop"
        ELSE IF locate = "dir_bad"
        THEN item' = item /\ pc' = "crashed"
        ELSE item' = [item EXCEPT !.local_app = Some("appBaseLocate")] /\ pc' = "gate"
    /\ UNCHANGED <<line, n_matched, work_left, helpers_left, todo, log, rc, interrupted, farewell, notMain>>

\* lines 302-311: the compatibility gate.
Gate ==
    /\ AtStatement("gate")
    /\ \E v \in OptVersionLists, sv \in OptVersionLists, a \in Versions, sa \in Versions :
        LET ok == check_compatible(v, sv, a, sa)
        IN  /\ item' = [item EXCEPT !.compatible = Some(ok)]
            /\ pc' = IF ok THEN "confirm" ELSE "loop"
    /\ UNCHANGED <<line, n_matched, work_left, helpers_left, todo, log, rc, interrupted, farewell, notMain>>

\* lines 313-318: action = read_input("").strip().lower()
Confirm ==
    /\ AtStatement("confirm")
    /\ \E typed \in AnswerLines :
        /\ line' = <<typed>>
        /\ item' = [item EXCEPT !.answer = Some(typed)]
        /\ pc' = IF Approves(lower(strip(read_input(typed)))) THEN "onlysh" ELSE "loop"
    /\ UNCHANGED <<n_matched, work_left, helpers_left, todo, log, rc, interrupted, farewell, notMain>>

\* A block that runs its command and goes on with the statement after it.
FallThrough(following) == following

\* lines 322, 370: continue, the rest of the iteration is skipped and the
\* for loop takes the next work item.
Continue(following) == "loop"

\* lines 320-322
OnlySh ==
    /\ AtStatement("onlysh")
    /\ \E onlysh \in BOOLEAN :
        IF onlysh
        THEN todo' = OnlyShCommands /\ pc' = Continue("adobe")
        ELSE todo' = <<>> /\ pc' = "adobe"
    /\ line' = <<>>
    /\ UNCHANGED <<n_matched, work_left, item, helpers_left, log, rc, interrupted, farewell, notMain>>

\* lines 325-329
Adobe ==
    /\ AtStatement("adobe")
    /\ \E adobe \in BOOLEAN :
        IF adobe
        THEN todo' = AdobeCommands /\ pc' = "adobe_js"
        ELSE todo' = <<>> /\ pc' = "reset"
    /\ UNCHANGED <<line, n_matched, work_left, item, helpers_left, log, rc, interrupted, farewell, notMain>>

\* lines 331-356: when Apps1_0.js does not exist it is opened for reading,
\* which raises FileNotFoundError; when it exists nothing is done.
AdobeJs ==
    /\ AtStatement("adobe_js")
    /\ \E js_exists \in BOOLEAN : pc' = IF js_exists THEN "reset" ELSE "crashed"
    /\ UNCHANGED <<line, n_matched, work_left, item, helpers_left, todo, log, rc, interrupted, farewell, notMain>>

\* lines 358-361
Reset ==
    /\ AtStatement("reset")
    /\ todo' = ResetCommands
    /\ pc' = "kill"
    /\ UNCHANGED <<line, n_matched, work_left, item, helpers_left, log, rc, interrupted, farewell, notMain>>

\* lines 363-365: getAppMainExecutable(app_base_locate) raises when
\* app_base_locate holds no readable manifest (the entry's appBaseLocate is
\* used even when the bundle came from the scan) or the manifest has no
\* CFBundleExecutable.
Kill ==
    /\ AtStatement("kill")
    /\ \E executable_read \in BOOLEAN :
        IF executable_read
        THEN todo' = KillCommands /\ pc' = "keygen"
        ELSE todo' = <<>> /\ pc' = "crashed"
    /\ UNCHANGED <<line, n_matched, work_left, item, helpers_left, log, rc, interrupted, farewell, notMain>>

\* lines 367-370
Keygen ==
    /\ AtStatement("keygen")
    /\ \E keygen \in BOOLEAN :
        IF keygen
        THEN todo' = handle_keygen /\ pc' = Continue("backup")
        ELSE todo' = <<>> /\ pc' = "backup"
    /\ UNCHANGED <<line, n_matched, work_left, item, helpers_left, log, rc, interrupted, farewell, notMain>>

\* lines 376, 382-383
Backup ==
    /\ AtStatement("backup")
    /\ \E backup_exists \in BOOLEAN :
        IF backup_exists
        THEN todo' = <<>> /\ pc' = "backup_prompt"
        ELSE todo' = BackupCommands /\ pc' = "inject"
    /\ UNCHANGED <<line, n_matched, work_left, item, helpers_left, log, rc, interrupted, farewell, notMain>>

\* lines 377-381: on "n" the backup is removed and copied again.
BackupPrompt ==
    /\ AtStatement("backup_prompt")
    /\ \E typed \in BackupAnswerLines :
        /\ line' = <<typed>>
        /\ todo' = IF lower(strip(read_input(typed))) = <<"n">> THEN BackupCommands ELSE <<>>
    /\ pc' = "inject"
    /\ UNCHANGED <<n_matched, work_left, item, helpers_left, log, rc, interrupted, farewell, notMain>>

\* lines 385-390
Inject ==
    /\ AtStatement("inject")
    /\ todo' = ChmodInjectorCommands
    /\ pc' = "copy"
    /\ line' = <<>>
    /\ UNCHANGED <<n_matched, work_left, item, helpers_left, log, rc, interrupted, farewell, notMain>>

\* lines 392-405 and 420-423; isDevHome is os.getenv("InjectLibDev") of line
\* 188, which nothing reads before this statement.
Copy ==
    /\ AtStatement("copy")
    /\ \E need_copy_to_app_dir \in BOOLEAN, isDevHome \in BOOLEAN :
        IF need_copy_to_app_dir
        THEN todo' = CopyDylibCommands(isDevHome) /\ pc' = "components"
        ELSE todo' = InjectPlain /\ pc' = "sign"
    /\ UNCHANGED <<line, n_matched, work_left, item, helpers_left, log, rc, interrupted, farewell, notMain>>

\* lines 407-421: getAppMainExecutable of a component raises when its
\* manifest cannot be read.
Components ==
    /\ AtStatement("components")
    /\ \E readable \in BOOLEAN :
        IF NComponents(item.componentApp) > 0 /\ ~readable
        THEN todo' = <<>> /\ pc' = "crashed"
        ELSE todo' = InjectCopied(item.componentApp) /\ pc' = "sign"
    /\ UNCHANGED <<line, n_matched, work_left, item, helpers_left, log, rc, interrupted, farewell, notMain>>

\* lines 425-454
Sign ==
    /\ AtStatement("sign")
    /\ \E flags \in SignFlags :
        todo' = SignCommands(flags.noSignTarget, flags.disableLibraryValidate,
                             flags.extraShell, flags.deepSignApp)
    /\ pc' = "helper"
    /\ UNCHANGED <<line, n_matched, work_left, item, helpers_left, log, rc, interrupted, farewell, notMain>>

\* lines 455-461: the helpers to patch, none unless autoHandleHelper and
\* helperFile are set.
Helper ==
    /\ AtStatement("helper")
    /\ helpers_left' \in 0..MaxHelpers
    /\ pc' = IF helpers_left' > 0 THEN "helper_begin" ELSE "tcc"
    /\ UNCHANGED <<line, n_matched, work_left, item, todo, log, rc, interrupted, farewell, notMain>>

\* lines 463-470 and handle_helper 106-114
HelperBegin ==
    /\ AtStatement("helper_begin")
    /\ todo' = HelperBeginCommands
    /\ pc' = "helper_daemon"
    /\ UNCHANGED <<line, n_matched, work_left, item, helpers_left, log, rc, interrupted, farewell, notMain>>

\* handle_helper 115-149
HelperDaemon ==
    /\ AtStatement("helper_daemon")
    /\ \E daemon_exists \in BOOLEAN :
        todo' = HelperRestCommands(daemon_exists, item.componentApp)
    /\ helpers_left' = helpers_left - 1
    /\ pc' = IF helpers_left' > 0 THEN "helper_begin" ELSE "tcc"
    /\ UNCHANGED <<line, n_matched, work_left, item, log, rc, interrupted, farewell, notMain>>

\* lines 471-488: getBundleID of a component raises when its manifest cannot
\* be read.
Tcc ==
    /\ AtStatement("tcc")
    /\ \E tccutil \in TccValues, readable \in BOOLEAN :
        IF tccutil.kind \in {"None", "falsy"}
        THEN todo' = <<>> /\ pc' = "finish"
        ELSE IF NComponents(item.componentApp) > 0 /\ ~readable
        THEN todo' = <<>> /\ pc' = "crashed"
        ELSE todo' = TccCommands(tccutil, item.componentApp) /\ pc' = "finish"
    /\ UNCHANGED <<line, n_matched, work_left, item, helpers_left, log, rc, interrupted, farewell, notMain>>

\* line 490
Finish ==
    /\ AtStatement("finish")
    /\ pc' = "loop"
    /\ UNCHANGED <<line, n_matched, work_left, item, helpers_left, todo, log, rc, interrupted, farewell, notMain>>

\* subprocess.run: the next command of the block is invoked and exits with
\* some status.
Invoke ==
    /\ Running
    /\ todo # <<>>
    /\ log' = Append(log, Head(todo))
    /\ \E status \in {0, 1} :
        /\ rc' = status
        /\ pc' = OnExit(status, pc)
        /\ todo' = IF pc' = pc THEN Tail(todo) ELSE <<>>
    /\ UNCHANGED <<line, n_matched, work_left, item, helpers_left, interrupted, farewell, notMain>>

\* Ctrl-C at any statement: the except clause prints the farewell message
\* and main returns.
Interrupt ==
    /\ Running
    /\ ~interrupted
    /\ interrupted' = TRUE
    /\ pc' = KeyboardInterruptHandler(pc)
    /\ farewell' = (pc' = "done")
    /\ todo' = <<>>
    /\ line' = <<>>
    /\ n_matched' = 0
    /\ IF pc' = "done" THEN Returned ELSE UNCHANGED <<work_left, item, helpers_left>>
    /\ UNCHANGED <<log, rc, notMain>>

NextMain ==
    \/ MainStart \/ MainKeyword \/ MainChoice \/ LoopNext \/ LoopExit
    \/ Resolve \/ Gate \/ Confirm \/ OnlySh \/ Adobe \/ AdobeJs \/ Reset
    \/ Kill \/ Keygen \/ Backup \/ BackupPrompt \/ Inject \/ Copy
    \/ Components \/ Sign \/ Helper \/ HelperBegin \/ HelperDaemon \/ Tcc
    \/ Finish \/ Invoke \/ Interrupt

SpecMain == InitMain /\ [][NextMain]_vars

(***************************************************************************)
(* MenuManager (src/ui/menu_manager.py)                                    *)
(***************************************************************************)
MaxApps == 45

\* MenuManager.__init__: self.page_size = 20
PageSize == 20

mainRest == <<pc, n_matched, work_left, item, helpers_left, todo, log, rc, interrupted, farewell>>
notMenu == <<prog, compatVars, searchVars, scanVars, mainRest, workVars, processVars, fileVars>>

\* What read_input returns at the operation prompt of show_main_menu.
MenuLetters == {"n", "p", "s", "l", "q", "x"}
MenuDigits == {"0", "1", "2", "4"}
MenuChoices == {<<>>} \cup {<<c>> : c \in MenuLetters} \cup (Strings(MenuDigits, MaxTyped) \ {<<>>})

\* The values show_main_menu and handle_app_search return.
Option(k) == Some([kind |-> "option", value |-> k])
Select(global_idx) == Some([kind |-> "SELECT", value |-> global_idx])
Chosen(apps) == Some([kind |-> "list", value |-> apps])

\* display_supported_apps(app_list, install_apps, page, page_size), defined in
\* src/app/search.py: the installed supported apps are listed page by page,
\* the requested page is brought into range, and the call returns the apps
\* of the page (here their numbers in the whole list), the page and the
\* number of pages.
PageCount(n, page_size) == IF n = 0 THEN 1 ELSE (n + page_size - 1) \div page_size

ClampPage(page, pages) == IF page < 0 THEN 0 ELSE IF page > pages - 1 THEN pages - 1 ELSE page

PageLength(n, page, page_size) == IF n - page * page_size > page_size THEN page_size ELSE n - page * page_size

display_supported_apps(n, page, page_size) ==
    LET pages == PageCount(n, page_size)
        shown == ClampPage(page, pages)
    IN  [displayed_apps |-> [k \in 1..PageLength(n, shown, page_size) |-> shown * page_size + k],
         current_page |-> shown,
         total_pages |-> pages]

\* lines 143-148: the top of the loop of show_main_menu.
Display(page) ==
    LET d == display_supported_apps(n_apps, page, PageSize)
    IN  /\ last_displayed_apps' = d.displayed_apps
        /\ current_page' = d.current_page
        /\ total_pages' = d.total_pages

\* An invalid choice taken for 'q'.
InvalidChoiceQuits ==
    /\ m_pc' = "returned"
    /\ menu_ret' = Option(5)
    /\ UNCHANGED <<current_page, total_pages, last_displayed_apps>>

\* lines 228-240: a message is printed and the loop of show_main_menu starts
\* over.
InvalidChoice ==
    /\ Display(current_page)
    /\ m_pc' = "prompt"
    /\ menu_ret' = None

\* The page of an app number counted from 0.
PageNumOffByOne(app_idx, page_size) == app_idx \div page_size

\* lines 192-193
PageNum(app_idx, page_size) == (app_idx - 1) \div page_size

PageIdx(app_idx, page_size) == (app_idx - 1) % page_size

\* lines 214-222: the position of the app with the packageName of the chosen
\* one in get_installed_supported_apps(), -1 when there is none.
GlobalIdx(selected_app, n) == IF selected_app \in 1..n THEN selected_app - 1 ELSE -1

InitMenu ==
    /\ prog = "show_main_menu"
    /\ CompatIdle /\ SearchIdle /\ ScanIdle /\ MainIdle
    /\ m_pc = "constructed"
    /\ n_apps \in 0..MaxApps
    /\ current_page = 0
    /\ total_pages = 0
    /\ last_displayed_apps = <<>>
    /\ menu_ret = None
    /\ n_found = 0 /\ app_Lst = <<>> /\ selected = {}
    /\ WorkIdle /\ ProcessIdle /\ FilesIdle

AtMenuPrompt == prog = "show_main_menu" /\ m_pc = "prompt"

\* lines 116-158: show_main_menu is called, the first time or again after it
\* returned; current_page is kept from one call to the next.
MenuEnter ==
    /\ prog = "show_main_menu"
    /\ m_pc \in {"constructed", "returned"}
    /\ Display(current_page)
    /\ m_pc' = "prompt"
    /\ menu_ret' = None
    /\ line' = <<>>
    /\ UNCHANGED <<n_apps, n_found, app_Lst, selected, notMenu>>

\* lines 161-166: 'n'
MenuNext ==
    /\ AtMenuPrompt
    /\ line' = <<<<"n">>>>
    /\ IF current_page < total_pages - 1
       THEN Display(current_page + 1)
       ELSE Display(current_page)
    /\ m_pc' = "prompt"
    /\ menu_ret' = None
    /\ UNCHANGED <<n_apps, n_found, app_Lst, selected, notMenu>>

\* lines 167-172: 'p'
MenuPrev ==
    /\ AtMenuPrompt
    /\ line' = <<<<"p">>>>
    /\ IF current_page > 0
       THEN Display(current_page - 1)
       ELSE Display(current_page)
    /\ m_pc' = "prompt"
    /\ menu_ret' = None
    /\ UNCHANGED <<n_apps, n_found, app_Lst, selected, notMenu>>

\* lines 173-178: 's', 'l', 'q'
MenuOption ==
    /\ AtMenuPrompt
    /\ \E choice \in {<<"s">>, <<"l">>, <<"q">>} :
        /\ line' = <<choice>>
        /\ menu_ret' = CASE choice = <<"s">> -> Option(1)
                         [] choice = <<"l">> -> Option(4)
                         [] choice = <<"q">> -> Option(5)
    /\ m_pc' = "returned"
    /\ UNCHANGED <<n_apps, current_page, total_pages, last_displayed_apps, n_found, app_Lst, selected, notMenu>>

\* lines 179-235: a number. '1'..'5' are returned as they are; a number of
\* the list moves to its page and returns the app at its offset; any other
\* number prints a message. Line 199 binds the name _ to the page count, so a
\* message printed after a page switch raises TypeError.
MenuNumber ==
    /\ AtMenuPrompt
    /\ \E choice \in MenuChoices :
        /\ isdigit(choice)
        /\ line' = <<choice>>
        /\ LET app_idx == int(choice)
               page_num == PageNum(app_idx, PageSize)
               page_idx == PageIdx(app_idx, PageSize)
               switched == current_page # page_num
               shown == IF switched
                        THEN display_supported_apps(n_apps, page_num, PageSize).displayed_apps
                        ELSE last_displayed_apps
           IN  IF choice \in {<<"1">>, <<"2">>, <<"3">>, <<"4">>, <<"5">>}
               THEN /\ menu_ret' = Option(app_idx)
                    /\ m_pc' = "returned"
                    /\ UNCHANGED <<current_page, total_pages, last_displayed_apps>>
               ELSE IF 1 <= app_idx /\ app_idx <= n_apps
               THEN IF page_idx < Len(shown) /\ GlobalIdx(shown[page_idx + 1], n_apps) >= 0
                    THEN /\ menu_ret' = Select(GlobalIdx(shown[page_idx + 1], n_apps))
                         /\ m_pc' = "returned"
                         /\ current_page' = page_num
                         /\ last_displayed_apps' = shown
                         /\ UNCHANGED total_pages
                    ELSE IF switched
                    THEN /\ m_pc' = "crashed"
                         /\ menu_ret' = None
                         /\ current_page' = page_num
                         /\ last_displayed_apps' = shown
                         /\ UNCHANGED total_pages
                    ELSE InvalidChoice
               ELSE InvalidChoice
    /\ UNCHANGED <<n_apps, n_found, app_Lst, selected, notMenu>>

\* lines 236-240: anything else
MenuInvalid ==
    /\ AtMenuPrompt
    /\ \E choice \in MenuChoices :
        /\ ~isdigit(choice)
        /\ choice \notin {<<"n">>, <<"p">>, <<"s">>, <<"l">>, <<"q">>}
        /\ line' = <<choice>>
    /\ InvalidChoice
    /\ UNCHANGED <<n_apps, n_found, app_Lst, selected, notMenu>>

NextMenu == MenuEnter \/ MenuNext \/ MenuPrev \/ MenuOption \/ MenuNumber \/ MenuInvalid

SpecMenu == InitMenu /\ [][NextMenu]_vars

\* handle_app_search (lines 248-313)
InitSelect ==
    /\ prog = "handle_app_search"
    /\ CompatIdle /\ SearchIdle /\ ScanIdle /\ MainIdle
    /\ m_pc = "keyword"
    /\ n_apps = 0 /\ current_page = 0 /\ total_pages = 0
    /\ last_displayed_apps = <<>>
    /\ menu_ret = None
    /\ n_found = 0 /\ app_Lst = <<>> /\ selected = {}
    /\ WorkIdle /\ ProcessIdle /\ FilesIdle

AtSelectPrompt == prog = "handle_app_search" /\ m_pc = "select"

\* lines 254-266: the keyword is read and searched for; nothing typed or
\* nothing found returns [].
SelectKeyword ==
    /\ prog = "handle_app_search"
    /\ m_pc = "keyword"
    /\ \E typed \in KeywordLines :
        /\ line' = <<typed>>
        /\ IF strip(typed) = <<>>
           THEN n_found' = 0
           ELSE n_found' \in 0..MaxMatched
    /\ IF n_found' = 0
       THEN m_pc' = "returned" /\ menu_ret' = Chosen(<<>>)
       ELSE m_pc' = "select" /\ menu_ret' = None
    /\ UNCHANGED <<n_apps, current_page, total_pages, last_displayed_apps, app_Lst, selected, notMenu>>

\* lines 292-295: '0'
SelectBack ==
    /\ AtSelectPrompt
    /\ \E typed \in ChoiceLines :
        /\ strip(typed) = <<"0">>
        /\ line' = <<typed>>
    /\ m_pc' = "returned"
    /\ menu_ret' = Chosen(app_Lst)
    /\ UNCHANGED <<n_apps, current_page, total_pages, last_displayed_apps, n_found, app_Lst, selected, notMenu>>

\* line 296: the number of a matched app
InRange(choice, count) == isdigit(choice) /\ 0 < int(choice) /\ int(choice) <= count

\* The membership test answering that nothing was selected yet.
NeverSelected(index, sel) == FALSE

\* line 298: index not in selected, negated
AlreadySelected(index, sel) == index \in sel

\* lines 296-304 and the loop condition of line 271
SelectNumber ==
    /\ AtSelectPrompt
    /\ \E typed \in ChoiceLines :
        /\ strip(typed) # <<"0">>
        /\ InRange(strip(typed), n_found)
        /\ line' = <<typed>>
        /\ LET index == int(strip(typed)) - 1
           IN  IF ~AlreadySelected(index, selected)
               THEN /\ app_Lst' = Append(app_Lst, index)
                    /\ selected' = selected \cup {index}
               ELSE UNCHANGED <<app_Lst, selected>>
    /\ IF Cardinality(selected') < n_found
       THEN m_pc' = "select" /\ menu_ret' = None
       ELSE m_pc' = "returned" /\ menu_ret' = Chosen(app_Lst')
    /\ UNCHANGED <<n_apps, current_page, total_pages, last_displayed_apps, n_found, notMenu>>

\* lines 305-309: Enter
SelectEnter ==
    /\ AtSelectPrompt
    /\ \E typed \in ChoiceLines :
        /\ strip(typed) = <<>>
        /\ line' = <<typed>>
    /\ IF app_Lst = <<>>
       THEN m_pc' = "select" /\ menu_ret' = None
       ELSE m_pc' = "returned" /\ menu_ret' = Chosen(app_Lst)
    /\ UNCHANGED <<n_apps, current_page, total_pages, last_displayed_apps, n_found, app_Lst, selected, notMenu>>

\* lines 310-311: anything else
SelectInvalid ==
    /\ AtSelectPrompt
    /\ \E typed \in ChoiceLines :
        /\ strip(typed) \notin {<<"0">>, <<>>}
        /\ ~InRange(strip(typed), n_found)
        /\ line' = <<typed>>
    /\ m_pc' = "select"
    /\ menu_ret' = None
    /\ UNCHANGED <<n_apps, current_page, total_pages, last_displayed_apps, n_found, app_Lst, selected, notMenu>>

NextSelect == SelectKeyword \/ SelectBack \/ SelectNumber \/ SelectEnter \/ SelectInvalid

SpecSelect == InitSelect /\ [][NextSelect]_vars

\* The three entry points that prompt.
InitPrompts == InitMain \/ InitMenu \/ InitSelect

NextPrompts == NextMain \/ NextMenu \/ NextSelect

SpecPrompts == InitPrompts /\ [][NextPrompts]_vars

(***************************************************************************)
(* main: the catalog and the work list (main.py 170-241)                   *)
(***************************************************************************)
\* The entries of config["AppList"] the work list is built from.
WorkPackageNames ==
    {[kind |-> "str", names |-> <<<<"a">>>>],
     [kind |-> "str", names |-> <<<<"b">>>>],
     [kind |-> "list", names |-> <<<<"b">>>>],
     [kind |-> "list", names |-> <<<<"A", "b">>, <<"b">>>>]}
WorkEntries == [packageName : WorkPackageNames, forQiuChenly : BOOLEAN]

notWork == <<prog, compatVars, scanVars, menuVars, processVars, fileVars, n_matched, work_left, item, helpers_left, todo, log, rc, interrupted, farewell, s_pos, s_app, s_returned, install_apps>>

\* tmp = app: the same dict under another name.
dict_alias(h, ref) == [heap |-> h, ref |-> ref]

\* dict.copy(): a new dict with the keys and values of the old one.
dict_copy(h, ref) == [heap |-> Append(h, h[ref]), ref |-> Len(h) + 1]

\* tmp["packageName"] = name
SetPackageName(h, ref, name) ==
    [h EXCEPT ![ref].packageName = [kind |-> "str", names |-> <<name>>]]

\* for name in package_name: tmp = app.copy(); tmp["packageName"] = name;
\* app_Lst.append(tmp) -- from the k-th name of the list on. The for
\* statement iterates the list it was given, whatever the key holds later.
RECURSIVE ExpandNames(_, _, _, _, _)
ExpandNames(h, ref, names, k, lst) ==
    IF k > Len(names) THEN [heap |-> h, app_Lst |-> lst]
    ELSE LET tmp == dict_copy(h, ref)
         IN  ExpandNames(SetPackageName(tmp.heap, tmp.ref, names[k]), ref, names,
                         k + 1, Append(lst, tmp.ref))

\* lines 220-226 and 233-239: a list entry is expanded, another entry is
\* appended as it is.
ExpandEntry(h, ref, lst) ==
    IF h[ref].packageName.kind = "list"
    THEN ExpandNames(h, ref, h[ref].packageName.names, 1, lst)
    ELSE [heap |-> h, app_Lst |-> Append(lst, ref)]

\* lines 228-239: for app in app_list, from the i-th entry on; an entry kept
\* for /Users/qiuchenly is passed over elsewhere.
RECURSIVE ExpandAll(_, _, _, _, _)
ExpandAll(h, refs, i, lst, qiuchenly_home) ==
    IF i > Len(refs) THEN [heap |-> h, app_Lst |-> lst]
    ELSE IF h[refs[i]].forQiuChenly /\ ~qiuchenly_home
         THEN ExpandAll(h, refs, i + 1, lst, qiuchenly_home)
         ELSE LET e == ExpandEntry(h, refs[i], lst)
              IN  ExpandAll(e.heap, refs, i + 1, e.app_Lst, qiuchenly_home)

\* search_apps(app_list, install_apps, keyword): the matched entries, by
\* reference, from the i-th entry on.
RECURSIVE search_apps(_, _, _, _, _)
search_apps(h, refs, installed, kw, i) ==
    IF i > Len(refs) THEN <<>>
    ELSE SearchBody(h[refs[i]], installed, kw, refs[i])
            \o search_apps(h, refs, installed, kw, i + 1)

\* The for statement takes the position after the ones it has taken.
NextPosition(taken) == Len(taken) + 1

\* lines 170-174: the catalog is loaded.
InitWork ==
    /\ prog = "main_work_list"
    /\ \E n \in 0..MaxCatalog :
        /\ heap \in [1..n -> WorkEntries]
        /\ app_list = [i \in 1..n |-> i]
    /\ loaded = heap
    /\ main_app_Lst = <<>>
    /\ visited = <<>>
    /\ pc = "keyword"
    /\ line = <<>> /\ n_matched = 0 /\ work_left = 0
    /\ item = NoItem /\ helpers_left = 0 /\ todo = <<>> /\ log = <<>>
    /\ rc = 0 /\ interrupted = FALSE /\ farewell = FALSE
    /\ CompatIdle /\ SearchIdle /\ ScanIdle /\ MenuIdle /\ ProcessIdle /\ FilesIdle

\* lines 197-203 and 227-239
WorkKeyword ==
    /\ prog = "main_work_list"
    /\ pc = "keyword"
    /\ \E typed \in KeywordLines, installed \in InstalledLists, qiuchenly_home \in BOOLEAN :
        /\ line' = <<typed>>
        /\ keyword' = strip(typed)
        /\ IF keyword' = <<>>
           THEN LET e == ExpandAll(heap, app_list, 1, <<>>, qiuchenly_home)
                IN  /\ heap' = e.heap
                    /\ main_app_Lst' = e.app_Lst
                    /\ matched_apps' = <<>>
                    /\ pc' = "loop"
           ELSE /\ matched_apps' = search_apps(heap, app_list, installed, keyword', 1)
                /\ pc' = IF matched_apps' = <<>> THEN "done" ELSE "choice"
                /\ UNCHANGED <<heap, main_app_Lst>>
    /\ UNCHANGED <<app_list, loaded, visited, notWork>>

\* lines 212-226
WorkChoice ==
    /\ prog = "main_work_list"
    /\ pc = "choice"
    /\ \E typed \in ChoiceLines :
        /\ line' = <<typed>>
        /\ IF ChoiceRejected(strip(typed), Len(matched_apps))
           THEN /\ pc' = "done"
                /\ UNCHANGED <<heap, main_app_Lst>>
           ELSE LET e == ExpandEntry(heap, matched_apps[int(strip(typed))], <<>>)
                IN  /\ heap' = e.heap
                    /\ main_app_Lst' = e.app_Lst
                    /\ pc' = "loop"
    /\ UNCHANGED <<app_list, loaded, visited, keyword, matched_apps, notWork>>

\* line 241: for app in app_Lst takes the next item; its body reads the keys
\* of the item (lines 242-262) and writes none.
WorkNext ==
    /\ prog = "main_work_list"
    /\ pc = "loop"
    /\ Len(visited) < Len(main_app_Lst)
    /\ visited' = Append(visited, NextPosition(visited))
    /\ UNCHANGED <<pc, line, heap, app_list, loaded, main_app_Lst, keyword, matched_apps, notWork>>

\* line 241: the list is exhausted.
WorkExit ==
    /\ prog = "main_work_list"
    /\ pc = "loop"
    /\ Len(visited) >= Len(main_app_Lst)
    /\ pc' = "done"
    /\ UNCHANGED <<line, heap, app_list, loaded, main_app_Lst, visited, keyword, matched_apps, notWork>>

NextWork == WorkKeyword \/ WorkChoice \/ WorkNext \/ WorkExit

SpecWork == InitWork /\ [][NextWork]_vars

(***************************************************************************)
(* MenuManager.handle_process_apps (menu_manager.py 325-343)               *)
(***************************************************************************)
MaxSelections == 3

notProcess == <<prog, compatVars, searchVars, scanVars, mainVars, menuVars, workVars, fileVars>>

\* AppManager, defined in src/app/app_manager.py: display_selected_apps lists
\* the selected apps and tells whether there is one; process_selected_apps
\* runs the sequencer on each of them and returns how many succeeded and how
\* many there were; clear_selected_apps empties the selection.
display_selected_apps(apps) == apps # <<>>

process_selected_apps(apps) == [handed |-> apps, total |-> Len(apps)]

clear_selected_apps(apps) == <<>>

\* The selection is never cleared.
ClearNever(total) == FALSE

\* line 334: if total > 0
ClearAfter(total) == total > 0

InitProcess ==
    /\ prog = "handle_process_apps"
    /\ selected_apps = <<>>
    /\ next_app = 1
    /\ processed = <<>>
    /\ hp_ret = None
    /\ CompatIdle /\ SearchIdle /\ ScanIdle /\ MainIdle /\ MenuIdle /\ WorkIdle /\ FilesIdle

\* Between two calls the user selects one more app.
SelectApp ==
    /\ prog = "handle_process_apps"
    /\ next_app <= MaxSelections
    /\ selected_apps' = Append(selected_apps, next_app)
    /\ next_app' = next_app + 1
    /\ UNCHANGED <<processed, hp_ret, notProcess>>

\* lines 331-343
HandleProcessApps ==
    /\ prog = "handle_process_apps"
    /\ IF ~display_selected_apps(selected_apps)
       THEN /\ hp_ret' = Some(FALSE)
            /\ UNCHANGED <<selected_apps, processed>>
       ELSE LET done == process_selected_apps(selected_apps)
            IN  /\ processed' = processed \o done.handed
                /\ selected_apps' = IF ClearAfter(done.total)
                                    THEN clear_selected_apps(selected_apps)
                                    ELSE selected_apps
                /\ hp_ret' = Some(TRUE)
    /\ UNCHANGED <<next_app, notProcess>>

NextProcess == SelectApp \/ HandleProcessApps

\* Where the selected apps are consumed: the for loop of main and
\* handle_process_apps.
InitConsume == InitWork \/ InitProcess

NextConsume == NextWork \/ NextProcess

SpecConsume == InitConsume /\ [][NextConsume]_vars

(***************************************************************************)
(* main: the backup and the injection of one app, run after run            *)
(* (main.py 372-423)                                                       *)
(***************************************************************************)
MaxRuns == 3

notBackup == <<prog, compatVars, searchVars, scanVars, menuVars, workVars, processVars, n_matched, work_left, helpers_left, rc, interrupted, farewell>>

\* What a file holds: the binary it came from and how many times the library
\* has been embedded in it.
Content(origin, injections) == [origin |-> origin, injections |-> injections]
Original == Content(<<"dest", 0>>, 0)

\* The external tools, by what they do to the files: cp copies its source
\* over its target, insert_dylib writes its input with the library embedded
\* once more to its output and does nothing without an input.
Injected(c) == Content(c.origin, c.injections + 1)

ReadFile(f, name) ==
    CASE name = "backup" -> f.backup
      [] name = "dest" -> Some(f.dest)
      [] OTHER -> None

WriteFile(f, target, c) ==
    CASE target[1] = "dest" -> [f EXCEPT !.dest = c]
      [] target[1] = "backup" -> [f EXCEPT !.backup = Some(c)]
      [] target[1] = "component" -> [f EXCEPT !.comp[target[2]] = c]
      [] OTHER -> f

Exec(c, f) ==
    IF c.site = "main" /\ c.tool \in {"cp", "insert_dylib"} /\ ~IsNone(ReadFile(f, c.source))
    THEN WriteFile(f, c.target,
                   IF c.tool = "cp" THEN ReadFile(f, c.source)[1]
                   ELSE Injected(ReadFile(f, c.source)[1]))
    ELSE f

\* The app as an earlier session may have left it: untouched, or injected
\* with the backup of the original beside the target.
InitBackup ==
    /\ prog = "main_backup"
    /\ \E injected \in BOOLEAN :
        files = [dest |-> IF injected THEN Injected(Original) ELSE Original,
                 backup |-> IF injected THEN Some(Original) ELSE None,
                 comp |-> [i \in 1..MaxComponents |-> Content(<<"component", i>>, 0)]]
    /\ runs = 0
    /\ pc = "loop"
    /\ line = <<>> /\ n_matched = 0 /\ work_left = 0
    /\ item = NoItem /\ helpers_left = 0 /\ todo = <<>> /\ log = <<>>
    /\ rc = 0 /\ interrupted = FALSE /\ farewell = FALSE
    /\ CompatIdle /\ SearchIdle /\ ScanIdle /\ MenuIdle /\ WorkIdle /\ ProcessIdle

AtRun(p) == prog = "main_backup" /\ pc = p /\ todo = <<>>

\* lines 241-372: a work item with this app as its target is confirmed, by
\* this run of main or a later one, and reaches the backup.
RunStart ==
    /\ AtRun("loop")
    /\ runs < MaxRuns
    /\ runs' = runs + 1
    /\ \E c \in ComponentApps : item' = [NoItem EXCEPT !.componentApp = c]
    /\ log' = <<>>
    /\ line' = <<>>
    /\ pc' = "backup"
    /\ UNCHANGED <<files, todo, notBackup>>

\* lines 376, 382-383
RunBackup ==
    /\ AtRun("backup")
    /\ IF ~IsNone(files.backup)
       THEN todo' = <<>> /\ pc' = "backup_prompt"
       ELSE todo' = BackupCommands /\ pc' = "inject"
    /\ UNCHANGED <<line, item, log, files, runs, notBackup>>

\* lines 377-381: on "n" os.remove(backup), then the copy.
RunBackupPrompt ==
    /\ AtRun("backup_prompt")
    /\ \E typed \in BackupAnswerLines :
        /\ line' = <<typed>>
        /\ IF lower(strip(read_input(typed))) = <<"n">>
           THEN /\ files' = [files EXCEPT !.backup = None]
                /\ todo' = BackupCommands
           ELSE /\ files' = files
                /\ todo' = <<>>
    /\ pc' = "inject"
    /\ UNCHANGED <<item, log, runs, notBackup>>

\* lines 385-390
RunInject ==
    /\ AtRun("inject")
    /\ todo' = ChmodInjectorCommands
    /\ pc' = "copy"
    /\ UNCHANGED <<line, item, log, files, runs, notBackup>>

\* lines 392-405 and 420-423
RunCopy ==
    /\ AtRun("copy")
    /\ \E need_copy_to_app_dir \in BOOLEAN, isDevHome \in BOOLEAN :
        IF need_copy_to_app_dir
        THEN todo' = CopyDylibCommands(isDevHome) /\ pc' = "components"
        ELSE todo' = InjectPlain /\ pc' = "finish"
    /\ UNCHANGED <<line, item, log, files, runs, notBackup>>

\* lines 407-421
RunComponents ==
    /\ AtRun("components")
    /\ todo' = InjectCopied(item.componentApp)
    /\ pc' = "finish"
    /\ UNCHANGED <<line, item, log, files, runs, notBackup>>

\* lines 425-490: signing, helpers and the TCC reset write neither the
\* target's content nor the backup; the run is over.
RunFinish ==
    /\ AtRun("finish")
    /\ pc' = "loop"
    /\ UNCHANGED <<line, item, log, todo, files, runs, notBackup>>

\* subprocess.run: the next command of the block is invoked and acts on the
\* files.
RunInvoke ==
    /\ prog = "main_backup"
    /\ todo # <<>>
    /\ log' = Append(log, Head(todo))
    /\ files' = Exec(Head(todo), files)
    /\ todo' = Tail(todo)
    /\ UNCHANGED <<pc, line, item, runs, notBackup>>

NextBackup ==
    \/ RunStart \/ RunBackup \/ RunBackupPrompt \/ RunInject \/ RunCopy
    \/ RunComponents \/ RunFinish \/ RunInvoke

SpecBackup == InitBackup /\ [][NextBackup]_vars

(***************************************************************************)
(* Properties of main                                                      *)
(***************************************************************************)
\* The step of the sequencer an invocation belongs to; 0 for an invocation
\* the list of steps does not name (a tool made executable, the dylib copied,
\* the defaults write, an extra shell script, the Adobe chmod, the final
\* xattr on the target).
Stage(c) ==
    CASE c.site = "handle_helper" -> 6
      [] c.site = "main" /\ c.tool \in {"chmod", "xattr"}
            /\ c.target = <<"app_base_locate", 0>> -> 1
      [] c.site = "main" /\ c.tool = "pkill" -> 2
      [] c.site = "main" /\ c.tool = "cp" /\ c.target = <<"backup", 0>> -> 3
      [] c.site = "main" /\ c.tool = "insert_dylib" -> 4
      [] c.site = "main" /\ c.tool = "codesign" -> 5
      [] c.site = "main" /\ c.tool = "tccutil" -> 7
      [] OTHER -> 0

IsNamedStep(c) == Stage(c) > 0

StagesIn(l) == {Stage(l[i]) : i \in 1..Len(l)}

Resolved(it) == it.local_app \in {Some("scan"), Some("appBaseLocate")}
Accepted(it) == it.compatible = Some(TRUE)
AnsweredExactlyY(it) == it.answer = Some(<<"y">>)
AnsweredY(it) == ~IsNone(it.answer) /\ lower(strip(it.answer[1])) = <<"y">>

Skipped == pc = "loop" /\ log = <<>> /\ todo = <<>>

C6_ExitStatusIgnored ==
    [][(prog = "main" /\ Len(log') > Len(log)) =>
          /\ log' = Append(log, Head(todo))
          /\ rc' \in {0, 1}
          /\ pc' = pc
          /\ todo' = Tail(todo)
          /\ item' = item
          /\ work_left' = work_left
          /\ helpers_left' = helpers_left]_vars

\* The last command of an app failed and the next app is being processed.
C6_Witness ==
    /\ prog = "main"
    /\ rc = 1
    /\ pc = "confirm"
    /\ log = <<>>

\* C10: once KeyboardInterrupt is raised, main has printed the farewell
\* message and returned, and the interrupt and whatever follows invoke
\* nothing.
C10_InterruptEndsMain ==
    [][(prog = "main" /\ interrupted') =>
          /\ pc' = "done"
          /\ farewell'
          /\ todo' = <<>>
          /\ log' = log]_vars

\* Interrupted between the chmod and the xattr of the permission reset.
C10_Witness ==
    /\ prog = "main"
    /\ interrupted
    /\ pc = "done"
    /\ farewell
    /\ Len(log) = 1
    /\ log[1].tool = "chmod"
    /\ log[1].target = <<"app_base_locate", 0>>

(***************************************************************************)
(* Properties of the prompts and of the pagination                         *)
(***************************************************************************)
\* What each prompt accepts.
MainAccepts(choice, count) == isdigit(choice) /\ int(choice) <= count

MenuAccepts(choice, n) ==
    \/ choice \in {<<"n">>, <<"p">>, <<"s">>, <<"l">>, <<"q">>}
    \/ choice \in {<<"1">>, <<"2">>, <<"3">>, <<"4">>, <<"5">>}
    \/ isdigit(choice) /\ 1 <= int(choice) /\ int(choice) <= n

SelectAccepts(choice, count) ==
    \/ choice \in {<<"0">>, <<>>}
    \/ isdigit(choice) /\ 0 < int(choice) /\ int(choice) <= count

\* A line is read at one of the three prompts and it is not an accepted value.
MainReadsInvalid ==
    /\ prog = "main" /\ pc = "choice" /\ ~interrupted'
    /\ ~MainAccepts(strip(line'[1]), n_matched)

MenuReadsInvalid ==
    /\ prog = "show_main_menu" /\ m_pc = "prompt"
    /\ ~MenuAccepts(line'[1], n_apps)

SelectReadsInvalid ==
    /\ prog = "handle_app_search" /\ m_pc = "select"
    /\ ~SelectAccepts(strip(line'[1]), n_found)

MenuReprompts ==
    /\ m_pc' = "prompt"
    /\ menu_ret' = None
    /\ current_page' = current_page
    /\ last_displayed_apps' = last_displayed_apps

SelectReprompts ==
    /\ m_pc' = "select"
    /\ menu_ret' = None
    /\ app_Lst' = app_Lst
    /\ selected' = selected

\* C8 as claimed: at the numbered choice of main, at the operation prompt of
\* show_main_menu and at the app-number prompt of handle_app_search, an input
\* that is not an accepted value leads back to the same prompt, the program
\* does not exit and neither the selection nor the current page changes.
C8_InvalidInputReprompts ==
    [][/\ MainReadsInvalid => pc' = "choice"
       /\ MenuReadsInvalid => MenuReprompts
       /\ SelectReadsInvalid => SelectReprompts]_vars

\* C8 amended: the two prompts of MenuManager read again after an input that
\* is not an accepted value, with the page and the selection as they were;
\* the numbered choice of main does not: such an input ends the program
\* there, and no command has been or will be invoked.
C8_InvalidInputRepromptsInMenus ==
    [][/\ MainReadsInvalid => (pc' = "done" /\ log' = <<>> /\ todo' = <<>> /\ work_left' = 0)
       /\ MenuReadsInvalid => MenuReprompts
       /\ SelectReadsInvalid => SelectReprompts]_vars

\* The numbered choice of main read "x" and main returned.
C8_Witness ==
    /\ prog = "main"
    /\ pc = "done"
    /\ ~interrupted
    /\ line = <<<<"x">>>>

\* The page count of a list of n apps shown page_size to a page: the least
\* number of pages, at least one, that holds them all.
PagesOf(n, page_size) ==
    CHOOSE k \in 1..(n + 1) : k * page_size >= n /\ (k = 1 \/ (k - 1) * page_size < n)

C11_CatalogImmutable ==
    prog = "main_work_list" =>
        /\ Len(app_list) = Len(loaded)
        /\ \A i \in 1..Len(app_list) : heap[app_list[i]] = loaded[i]
        /\ \A j \in 1..Len(main_app_Lst) :
              LET tmp == main_app_Lst[j]
              IN  /\ heap[tmp].packageName.kind = "str"
                  /\ tmp > Len(app_list) =>
                        \E i \in 1..Len(app_list) :
                            /\ loaded[i].packageName.kind = "list"
                            /\ \E k \in 1..Len(loaded[i].packageName.names) :
                                  heap[tmp].packageName.names = <<loaded[i].packageName.names[k]>>

\* The entry with two names was chosen at the numbered prompt and both of its
\* work items have been traversed.
C11_Witness ==
    /\ prog = "main_work_list"
    /\ pc = "done"
    /\ keyword = <<"a">>
    /\ Len(visited) = 2
    /\ \A j \in 1..2 : main_app_Lst[j] > Len(app_list)
    /\ heap[main_app_Lst[1]].packageName.names = <<<<"A", "b">>>>
    /\ heap[main_app_Lst[2]].packageName.names = <<<<"b">>>>

\* No element occurs twice in the sequence.
NoDuplicates(q) == \A i, j \in 1..Len(q) : q[i] = q[j] => i = j

\* The for loop of main has taken the first items of app_Lst, each once and
\* in order, and all of them when it is over.
TraversedOnce ==
    prog = "main_work_list" =>
        /\ Len(visited) <= Len(main_app_Lst)
        /\ \A k \in 1..Len(visited) : visited[k] = k
        /\ (pc = "done" /\ main_app_Lst # <<>>) => Len(visited) = Len(main_app_Lst)

\* No selected app has been handed to process_selected_apps twice.
ProcessedOnce == prog = "handle_process_apps" => NoDuplicates(processed)

\* A call of handle_process_apps with no app selected returns False and
\* hands nothing to process_selected_apps; a call that hands apps over hands
\* over the selection, leaves it empty and returns True.
ProcessStep ==
    prog = "handle_process_apps" =>
        /\ (selected_apps = <<>> /\ hp_ret' # hp_ret) => hp_ret' = Some(FALSE)
        /\ (selected_apps = <<>> /\ selected_apps' = <<>>) => processed' = processed
        /\ processed' # processed =>
              /\ processed' = processed \o selected_apps
              /\ selected_apps' = <<>>
              /\ hp_ret' = Some(TRUE)

\* C12: each selected app is consumed at most once: main traverses its work
\* list once and in order; handle_process_apps clears the selection after
\* process_selected_apps reported total > 0, so that a second call without a
\* new selection processes nothing, and with no app selected it returns
\* False without calling process_selected_apps.
C12_ConsumedOnce ==
    /\ [](TraversedOnce /\ ProcessedOnce)
    /\ [][ProcessStep]_vars

\* Two apps were processed and a further call found nothing selected.
C12_Witness ==
    /\ prog = "handle_process_apps"
    /\ processed = <<1, 2>>
    /\ selected_apps = <<>>
    /\ hp_ret = Some(FALSE)

(***************************************************************************)
(* Properties of the backup                                                *)
(***************************************************************************)
IsInjector(c) == c.site = "main" /\ c.tool = "insert_dylib"
IsBackupCopy(c) == c.site = "main" /\ c.tool = "cp" /\ c.target = <<"backup", 0>>

\* The command a step of the run invokes, if it invokes one.
Invokes(P(_)) == todo # <<>> /\ log' # log /\ P(Head(todo))

\* Every injector invocation of the run reads the backup and writes the
\* target or a component executable.
InjectorsReadBackup ==
    prog = "main_backup" =>
        \A k \in 1..Len(log) :
            IsInjector(log[k]) =>
                /\ log[k].source = "backup"
                /\ log[k].target[1] \in {"dest", "component"}

\* The steps of create-or-reuse.
BackupSteps ==
    prog = "main_backup" =>
        /\ (pc = "backup" /\ pc' # pc) =>
              IF IsNone(files.backup)
              THEN todo' = BackupCommands /\ pc' = "inject"
              ELSE todo' = <<>> /\ pc' = "backup_prompt" /\ files' = files
        /\ (pc = "backup_prompt" /\ pc' # pc) =>
              IF lower(strip(line'[1])) = <<"n">>
              THEN IsNone(files'.backup) /\ todo' = BackupCommands
              ELSE files' = files /\ todo' = <<>>
        /\ Invokes(IsBackupCopy) =>
              /\ IsNone(files.backup)
              /\ files' = [files EXCEPT !.backup = Some(files.dest)]
        /\ Invokes(IsInjector) =>
              /\ ~IsNone(files.backup)
              /\ files'.backup = files.backup
              /\ \/ files' = [files EXCEPT !.dest = Injected(files.backup[1])]
                 \/ \E i \in 1..MaxComponents :
                        files' = [files EXCEPT !.comp[i] = Injected(files.backup[1])]
        /\ files'.backup # files.backup =>
              \/ pc = "backup_prompt" /\ IsNone(files'.backup)
              \/ Invokes(IsBackupCopy)

C14_BackupHoldsOriginal ==
    prog = "main_backup" =>
        /\ ~IsNone(files.backup) => files.backup[1] = Original
        /\ files.dest.injections <= 1

(***************************************************************************)
(* Properties of the selection by number                                   *)
(***************************************************************************)
\* The number typed at the prompt of the main menu, if it is one.
TypedNumber == line # <<>> /\ isdigit(line[1])

\* C15: a typed number n with 1 <= n <= the number of listed apps returns
\* SELECT with the index of the n-th app of the list, whatever page it is on;
\* a number out of that range selects nothing and the menu prompts again.
C15_NumberSelectsNthApp ==
    /\ [](prog = "show_main_menu" /\ m_pc = "returned" /\ TypedNumber /\ 1 <= int(line[1]) /\ int(line[1]) <= n_apps
            => menu_ret = Select(int(line[1]) - 1))
    /\ [][(AtMenuPrompt /\ line' # <<>> /\ isdigit(line'[1]) /\ ~(1 <= int(line'[1]) /\ int(line'[1]) <= n_apps))
            => (m_pc' = "prompt" /\ menu_ret' = None)]_vars

(***************************************************************************)
(* Properties of handle_app_search                                         *)
(***************************************************************************)
\* The list holds one element for each selected index and none twice.
ListAgreesWithSet ==
    /\ Len(app_Lst) = Cardinality(selected)
    /\ {app_Lst[k] : k \in 1..Len(app_Lst)} = selected
    /\ NoDuplicates(app_Lst)

\* What the loop of handle_app_search keeps.
SelectionInvariant ==
    prog = "handle_app_search" =>
        /\ ListAgreesWithSet
        /\ selected \subseteq 0..(n_found - 1)
        /\ m_pc = "select" => Cardinality(selected) < n_found
        /\ (m_pc = "returned" /\ n_found > 0) => menu_ret = Chosen(app_Lst)

\* What one answer at the prompt of handle_app_search does.
SelectionStep ==
    AtSelectPrompt =>
        LET choice == strip(line'[1])
        IN  /\ \/ app_Lst' = app_Lst /\ selected' = selected
               \/ /\ InRange(choice, n_found)
                  /\ int(choice) - 1 \notin selected
                  /\ app_Lst' = Append(app_Lst, int(choice) - 1)
                  /\ selected' = selected \cup {int(choice) - 1}
            /\ (InRange(choice, n_found) /\ int(choice) - 1 \in selected) =>
                  /\ app_Lst' = app_Lst /\ selected' = selected
                  /\ m_pc' = "select"
            /\ (InRange(choice, n_found) /\ int(choice) - 1 \notin selected) =>
                  app_Lst' = Append(app_Lst, int(choice) - 1)
            /\ (choice = <<>> /\ app_Lst = <<>>) => m_pc' = "select"
            /\ (choice = <<>> /\ app_Lst # <<>>) => menu_ret' = Chosen(app_Lst)
            /\ choice = <<"0">> => menu_ret' = Chosen(app_Lst)
            /\ Cardinality(selected') = n_found =>
                  m_pc' = "returned" /\ menu_ret' = Chosen(app_Lst')

\* C16: the list and the set of handle_app_search agree, the list holding the
\* selected apps once each in the order they were chosen; a number already
\* selected changes nothing; Enter with nothing selected stays at the
\* prompt; 0 with nothing selected returns the empty list; and the loop ends
\* when every matched app is selected.
C16_SelectionAgrees ==
    /\ []SelectionInvariant
    /\ [][SelectionStep]_vars

\* Of two matched apps the second and then the first were chosen, which
\* ended the loop.
C16_Witness ==
    /\ prog = "handle_app_search"
    /\ n_found = 2
    /\ app_Lst = <<1, 0>>
    /\ selected = {0, 1}
    /\ m_pc = "returned"
    /\ menu_ret = Chosen(<<1, 0>>)
    /\ line # <<>> /\ strip(line[1]) = <<"1">>

(***************************************************************************)
(* Properties of the onlysh and keygen items                               *)
(***************************************************************************)
\* The invocations of an iteration that ran the keygen tool, so far: the
\* Adobe chmod for an Adobe app, the reset, the kill, then handle_keygen.
KeygenLogs ==
    {p \o ResetCommands \o KillCommands \o SubSeq(handle_keygen, 1, j) :
        p \in {<<>>, AdobeCommands}, j \in 1..Len(handle_keygen)}

RanOnlySh == log # <<>> /\ log[1] = OnlyShCommands[1]
RanKeygen == \E k \in 1..Len(log) : log[k].site = "handle_keygen"

\* C17: an onlysh item invokes the extra shell script and nothing else, no
\* reset, kill, backup, injection or signing; a keygen item has the reset
\* and the kill performed, then the keygen tool, and no backup, injection,
\* signing, helper or TCC step; after either, main goes on with the next
\* item of the work list.
C17_OnlyShAndKeygenShortCircuit ==
    prog = "main" =>
        /\ RanOnlySh => (log = OnlyShCommands /\ todo = <<>> /\ pc \in {"loop", "done"})
        /\ (log = <<>> /\ todo # <<>> /\ Head(todo) = OnlyShCommands[1]) => (todo = OnlyShCommands /\ pc = "loop")
        /\ RanKeygen => (log \in KeygenLogs /\ log \o todo \in KeygenLogs /\ pc \in {"loop", "done"})

\* A keygen item of a list with more items: the reset, the kill and the
\* keygen tool ran and main is back at the head of the loop.
C17_Witness ==
    /\ prog = "main"
    /\ log = ResetCommands \o KillCommands \o handle_keygen
    /\ todo = <<>>
    /\ pc = "loop"
    /\ work_left > 0

====
